---- MODULE Spec2Model ----
(***************************************************************************)
(* Sliding-window rate limiter (src/src/rate-limiter.ts, class RateLimiter) *)
(* as a state machine.  Time is the value Date.now() returns; it advances   *)
(* by the Tick and Sleep actions and is read by every operation.            *)
(* The message gate (src/src/websocket-handler.ts, class                    *)
(* RateLimitedWebSocketServer) runs on top of it.                           *)
(***************************************************************************)
EXTENDS Integers, Sequences, FiniteSets

VARIABLES
    config,     \* RateLimiter.config: maxRequests, windowMs, blockDurationMs
    now,        \* the value of Date.now()
    clients,    \* RateLimiter.clients: Map<string, ClientState>
    lastCall,   \* history: the operation that ran last and what it returned
    admitted,   \* history: per client, the times of the admitted check()s still in the window
    denyUntil,  \* history: per client, the moment a window-full denial announced
    log,        \* history: the check() calls of the logged runs, in order
    handlers,   \* RateLimitedWebSocketServer.handlers: Map<string, MessageHandler>
    options,    \* RateLimitedWebSocketServer.config
    pending,    \* handleMessage() calls suspended at `await handler(...)`
    cleanupInterval,    \* RateLimiter.cleanupInterval: <<>> for null, <<id>> for a timer
    timers      \* the host's interval timers that are set: id -> interval and next due time

vars == <<config, now, clients, lastCall, admitted, denyUntil, log,
          handlers, options, pending, cleanupInterval, timers>>

-----------------------------------------------------------------------------
(* Bounds of the model *)

MaxRequestsBound == 2
MaxWindowMs == 2
MaxBlockMs == 2
MaxTime == 3
MaxStored == 2

Clients == {"c1", "c2"}

\* RateLimiterConfig after the constructor's defaulting (blockDurationMs ?? 0)
Policies ==
    [maxRequests : 0..MaxRequestsBound,
     windowMs : 1..MaxWindowMs,
     blockDurationMs : 0..MaxBlockMs]

Max(a, b) == IF a >= b THEN a ELSE b

-----------------------------------------------------------------------------
(* ClientState: requests, and blockedUntil when it is set *)

NewState == [requests |-> <<>>]

HasBlock(state) == "blockedUntil" \in DOMAIN state

\* the truthiness test `state.blockedUntil` of a number | undefined
BlockSet(state) == HasBlock(state) /\ state.blockedUntil # 0

\* Variant: the block also covers the deadline itself (now <= blockedUntil)
IsBlockedInclusive(state, t) == BlockSet(state) /\ t <= state.blockedUntil

\* Variant: a block that is set never runs out
IsBlockedForever(state, t) == BlockSet(state)

\* state.blockedUntil && now < state.blockedUntil
IsBlocked(state, t) == BlockSet(state) /\ t < state.blockedUntil

\* const windowStart = now - this.config.windowMs
WindowStart(t) == t - config.windowMs

\* Variant: the window keeps its lower edge (ts >= windowStart)
TrimInclusive(requests, t) == SelectSeq(requests, LAMBDA ts : ts >= WindowStart(t))

\* state.requests.filter(ts => ts > windowStart)
Trim(requests, t) == SelectSeq(requests, LAMBDA ts : ts > WindowStart(t))

\* Variant: resetMs is the time since the oldest request, not the time left
ResetMsSinceOldest(requests, t) ==
    LET oldestRequest == IF Len(requests) > 0 THEN requests[1] ELSE t
    IN  Max(0, t - oldestRequest)

\* Variant: no fallback to now for an empty sequence, resetMs 0 instead
ResetMsZeroWhenEmpty(requests, t) ==
    IF Len(requests) > 0 THEN Max(0, requests[1] + config.windowMs - t) ELSE 0

\* const oldestRequest = state.requests[0] ?? now;
\* const resetMs = Math.max(0, oldestRequest + this.config.windowMs - now)
ResetMs(requests, t) ==
    LET oldestRequest == IF Len(requests) > 0 THEN requests[1] ELSE t
    IN  Max(0, oldestRequest + config.windowMs - t)

\* let state = this.clients.get(clientId); if (!state) { state = { requests: [] } ... }
GetOrCreate(c) == IF c \in DOMAIN clients THEN clients[c] ELSE NewState

\* the block-expired branch: blockedUntil = undefined, requests = []
ExpireBlock(state) == IF BlockSet(state) THEN NewState ELSE state

\* Variant: a full window sets the block whatever blockDurationMs is
CheckStateAlwaysBlocks(state, t) ==
    IF IsBlocked(state, t)
    THEN state
    ELSE LET s == ExpireBlock(state)
             requests == Trim(s.requests, t)
         IN  IF Len(requests) >= config.maxRequests
             THEN [requests |-> requests,
                   blockedUntil |-> t + config.blockDurationMs]
             ELSE [s EXCEPT !.requests = Append(requests, t)]

\* Variant: a check() made while blocked trims the requests all the same
CheckStateTrimsWhileBlocked(state, t) ==
    IF IsBlocked(state, t)
    THEN [state EXCEPT !.requests = Trim(state.requests, t)]
    ELSE LET s == ExpireBlock(state)
             requests == Trim(s.requests, t)
         IN  IF Len(requests) >= config.maxRequests
             THEN IF config.blockDurationMs > 0
                  THEN [requests |-> requests,
                        blockedUntil |-> t + config.blockDurationMs]
                  ELSE [s EXCEPT !.requests = requests]
             ELSE [s EXCEPT !.requests = Append(requests, t)]

\* Variant: the quota test is length > maxRequests
CheckStateStrictQuota(state, t) ==
    IF IsBlocked(state, t)
    THEN state
    ELSE LET s == ExpireBlock(state)
             requests == Trim(s.requests, t)
         IN  IF Len(requests) > config.maxRequests
             THEN IF config.blockDurationMs > 0
                  THEN [requests |-> requests,
                        blockedUntil |-> t + config.blockDurationMs]
                  ELSE [s EXCEPT !.requests = requests]
             ELSE [s EXCEPT !.requests = Append(requests, t)]

\* Variant: an admission is not recorded
CheckStateForgetsAdmission(state, t) ==
    IF IsBlocked(state, t)
    THEN state
    ELSE LET s == ExpireBlock(state)
             requests == Trim(s.requests, t)
         IN  IF Len(requests) >= config.maxRequests
             THEN IF config.blockDurationMs > 0
                  THEN [requests |-> requests,
                        blockedUntil |-> t + config.blockDurationMs]
                  ELSE [s EXCEPT !.requests = requests]
             ELSE [s EXCEPT !.requests = requests]

\* Variant: a check() made while blocked starts the block again
CheckStateExtendsBlock(state, t) ==
    IF IsBlocked(state, t)
    THEN [state EXCEPT !.blockedUntil = t + config.blockDurationMs]
    ELSE LET s == ExpireBlock(state)
             requests == Trim(s.requests, t)
         IN  IF Len(requests) >= config.maxRequests
             THEN IF config.blockDurationMs > 0
                  THEN [requests |-> requests,
                        blockedUntil |-> t + config.blockDurationMs]
                  ELSE [s EXCEPT !.requests = requests]
             ELSE [s EXCEPT !.requests = Append(requests, t)]

\* The ClientState check() leaves behind for a client whose state was `state`
CheckState(state, t) ==
    IF IsBlocked(state, t)
    THEN state
    ELSE LET s == ExpireBlock(state)
             requests == Trim(s.requests, t)
         IN  IF Len(requests) >= config.maxRequests
             THEN IF config.blockDurationMs > 0
                  THEN [requests |-> requests,
                        blockedUntil |-> t + config.blockDurationMs]
                  ELSE [s EXCEPT !.requests = requests]
             ELSE [s EXCEPT !.requests = Append(requests, t)]

\* Variant: a denial reports maxRequests - count as it is, not 0
CheckResultRawRemaining(state, t) ==
    IF IsBlocked(state, t)
    THEN [allowed |-> FALSE, remaining |-> 0,
          resetMs |-> state.blockedUntil - t, blocked |-> TRUE]
    ELSE LET s == ExpireBlock(state)
             requests == Trim(s.requests, t)
             remaining == config.maxRequests - Len(requests)
             resetMs == ResetMs(requests, t)
         IN  IF Len(requests) >= config.maxRequests
             THEN [allowed |-> FALSE, remaining |-> remaining,
                   resetMs |-> IF config.blockDurationMs > 0
                               THEN config.blockDurationMs ELSE resetMs,
                   blocked |-> config.blockDurationMs > 0]
             ELSE [allowed |-> TRUE, remaining |-> remaining - 1,
                   resetMs |-> resetMs]

\* Variant: an admission reports the quota before the slot it takes
CheckResultNoDecrement(state, t) ==
    IF IsBlocked(state, t)
    THEN [allowed |-> FALSE, remaining |-> 0,
          resetMs |-> state.blockedUntil - t, blocked |-> TRUE]
    ELSE LET s == ExpireBlock(state)
             requests == Trim(s.requests, t)
             remaining == config.maxRequests - Len(requests)
             resetMs == ResetMs(requests, t)
         IN  IF Len(requests) >= config.maxRequests
             THEN [allowed |-> FALSE, remaining |-> 0,
                   resetMs |-> IF config.blockDurationMs > 0
                               THEN config.blockDurationMs ELSE resetMs,
                   blocked |-> config.blockDurationMs > 0]
             ELSE [allowed |-> TRUE, remaining |-> remaining,
                   resetMs |-> resetMs]

\* The RateLimitResult check() returns for a client whose state was `state`
CheckResult(state, t) ==
    IF IsBlocked(state, t)
    THEN [allowed |-> FALSE, remaining |-> 0,
          resetMs |-> state.blockedUntil - t, blocked |-> TRUE]
    ELSE LET s == ExpireBlock(state)
             requests == Trim(s.requests, t)
             remaining == config.maxRequests - Len(requests)
             resetMs == ResetMs(requests, t)
         IN  IF Len(requests) >= config.maxRequests
             THEN [allowed |-> FALSE, remaining |-> 0,
                   resetMs |-> IF config.blockDurationMs > 0
                               THEN config.blockDurationMs ELSE resetMs,
                   blocked |-> config.blockDurationMs > 0]
             ELSE [allowed |-> TRUE, remaining |-> remaining - 1,
                   resetMs |-> resetMs]

\* this.clients.set(clientId, state)
Put(map, c, state) ==
    [x \in DOMAIN map \cup {c} |-> IF x = c THEN state ELSE map[x]]

\* Variant: reset() forgets every client
ResetClientsAll(map, c) == <<>>

\* Variant: reset() empties the requests and leaves the entry and its block
ResetClientsKeepsBlock(map, c) ==
    IF c \in DOMAIN map THEN [map EXCEPT ![c].requests = <<>>] ELSE map

\* this.clients.delete(clientId)
ResetClients(map, c) == [x \in DOMAIN map \ {c} |-> map[x]]

\* consume(): state.requests.push(Date.now()) when the client is tracked
ConsumeClients(map, c, t) ==
    IF c \in DOMAIN map
    THEN [map EXCEPT ![c].requests = Append(@, t)]
    ELSE map

\* cleanup(), one entry: trim the requests, clear an expired block
CleanupState(state, t) ==
    LET requests == Trim(state.requests, t)
    IN  IF BlockSet(state) /\ t >= state.blockedUntil
        THEN [requests |-> requests]
        ELSE [state EXCEPT !.requests = requests]

\* Variant: an entry with no requests left is deleted whatever its block
CleanupClientsDropsBlocked(map, t) ==
    LET kept == {c \in DOMAIN map : Len(CleanupState(map[c], t).requests) # 0}
    IN  [c \in kept |-> CleanupState(map[c], t)]

\* cleanup(), the whole map: entries left empty and without a block are deleted
CleanupClients(map, t) ==
    LET kept == {c \in DOMAIN map :
                    LET s == CleanupState(map[c], t)
                    IN  ~(Len(s.requests) = 0 /\ ~BlockSet(s))}
    IN  [c \in kept |-> CleanupState(map[c], t)]

\* getClientState(): null for an untracked client, else the snapshot
GetClientStateResult(map, c, t) ==
    IF c \notin DOMAIN map
    THEN [found |-> FALSE]
    ELSE IF HasBlock(map[c])
         THEN [found |-> TRUE,
               requestCount |-> Len(Trim(map[c].requests, t)),
               blocked |-> IsBlocked(map[c], t),
               blockedUntil |-> map[c].blockedUntil]
         ELSE [found |-> TRUE,
               requestCount |-> Len(Trim(map[c].requests, t)),
               blocked |-> FALSE]

\* the shapes getClientState() can return
SnapshotResults ==
    [found : {FALSE}]
        \cup [found : {TRUE}, requestCount : Nat, blocked : BOOLEAN]
        \cup [found : {TRUE}, requestCount : Nat, blocked : BOOLEAN, blockedUntil : Nat]

-----------------------------------------------------------------------------
(* History bookkeeping (not program state) *)

NoCall == [op |-> "none"]

\* whether reset() found the client under an active block
ResetFrom(map, c, t) ==
    IF c \in DOMAIN map /\ IsBlocked(map[c], t) THEN "blocked" ELSE "open"

\* the moment a denial at time t announces, given the one announced before
NextDenyUntil(c, t, result) ==
    IF result.allowed THEN <<>>
    ELSE IF denyUntil[c] # <<>> /\ t < denyUntil[c][1] THEN denyUntil[c]
    ELSE IF config.blockDurationMs > 0 THEN <<t + config.blockDurationMs>>
    ELSE IF admitted[c] # <<>> THEN <<admitted[c][1] + config.windowMs>>
    ELSE <<>>

\* the number of timestamps the map holds, over all clients
RECURSIVE SumStored(_, _)
SumStored(map, cs) ==
    IF cs = {} THEN 0
    ELSE LET c == CHOOSE x \in cs : TRUE
         IN  Len(map[c].requests) + SumStored(map, cs \ {c})

TotalStored(map) == SumStored(map, DOMAIN map)

-----------------------------------------------------------------------------
(* Initial states *)

InitState ==
    /\ now = 0
    /\ clients = <<>>
    /\ lastCall = NoCall
    /\ admitted = [c \in Clients |-> <<>>]
    /\ denyUntil = [c \in Clients |-> <<>>]
    /\ log = <<>>
    /\ handlers = <<>>
    /\ pending = <<>>

\* a limiter as constructed: cleanupInterval is null
NoTimer ==
    /\ cleanupInterval = <<>>
    /\ timers = <<>>

\* the server's options when none are given
DefaultOptions ==
    [onRateLimitExceeded |-> "noop", closeOnRateLimit |-> FALSE, getClientId |-> "id"]

Init ==
    /\ config \in Policies
    /\ options = DefaultOptions
    /\ NoTimer
    /\ InitState

-----------------------------------------------------------------------------
(* Operations *)

\* check(clientId): the program's part, and what the call returned
CheckCore(c) ==
    LET state == GetOrCreate(c)
        result == CheckResult(state, now)
    IN  /\ clients' = Put(clients, c, CheckState(state, now))
        /\ lastCall' = [op |-> "check", clientId |-> c, result |-> result,
                        until |-> denyUntil[c],
                        count |-> Len(admitted[c]),
                        afterReset |-> IF lastCall.op = "reset" /\ lastCall.clientId = c
                                       THEN lastCall.was ELSE "no"]
        /\ UNCHANGED <<handlers, options, pending, config, cleanupInterval, timers, now>>

Check(c) == CheckCore(c) /\ UNCHANGED <<admitted, denyUntil, log>>

\* check(clientId), with the admissions and the announced moment recorded
CheckTracked(c) ==
    LET result == CheckResult(GetOrCreate(c), now)
    IN  /\ CheckCore(c)
        /\ admitted' = [admitted EXCEPT ![c] =
                            IF result.allowed THEN Append(@, now) ELSE @]
        /\ denyUntil' = [denyUntil EXCEPT ![c] = NextDenyUntil(c, now, result)]
        /\ UNCHANGED log

\* consume(clientId)
Consume(c) ==
    /\ TotalStored(clients) < MaxStored
    /\ clients' = ConsumeClients(clients, c, now)
    /\ lastCall' = [op |-> "consume"]
    /\ UNCHANGED <<handlers, options, pending, config, cleanupInterval, timers,
                   now, admitted, denyUntil, log>>

\* reset(clientId)
Reset(c) ==
    /\ clients' = ResetClients(clients, c)
    /\ lastCall' = [op |-> "reset", clientId |-> c, was |-> ResetFrom(clients, c, now)]
    /\ UNCHANGED <<handlers, options, pending, config, cleanupInterval, timers,
                   now, admitted, denyUntil, log>>

\* clear()
Clear ==
    /\ clients' = <<>>
    /\ lastCall' = [op |-> "clear"]
    /\ UNCHANGED <<handlers, options, pending, config, cleanupInterval, timers,
                   now, admitted, denyUntil, log>>

\* cleanup()
Cleanup ==
    /\ clients' = CleanupClients(clients, now)
    /\ lastCall' = [op |-> "cleanup",
                    evicted |-> DOMAIN clients \ DOMAIN CleanupClients(clients, now)]
    /\ UNCHANGED <<handlers, options, pending, config, cleanupInterval, timers,
                   now, admitted, denyUntil, log>>

\* Variant: getClientState() writes the trimmed requests back
GetClientStatePersistsTrim(c) ==
    /\ clients' = [x \in DOMAIN clients |->
                        IF x = c THEN [clients[x] EXCEPT !.requests = Trim(@, now)]
                        ELSE clients[x]]
    /\ lastCall' = [op |-> "getClientState"]
    /\ UNCHANGED <<handlers, options, pending, config, cleanupInterval, timers,
                   now, admitted, denyUntil, log>>

\* getClientState(clientId)
GetClientState(c) ==
    /\ GetClientStateResult(clients, c, now) \in SnapshotResults
    /\ lastCall' = [op |-> "getClientState"]
    /\ UNCHANGED <<handlers, options, pending, config, cleanupInterval, timers,
                   now, clients, admitted, denyUntil, log>>

\* Date.now() moves on by d milliseconds
Advance(d) ==
    /\ now' = now + d
    /\ lastCall' = NoCall
    /\ admitted' = [c \in Clients |->
                        SelectSeq(admitted[c], LAMBDA ts : ts > now + d - config.windowMs)]
    /\ UNCHANGED <<handlers, options, pending, config, cleanupInterval, timers,
                   clients, denyUntil, log>>

Tick == now < MaxTime /\ Advance(1)

\* Every operation of the limiter, in any order
Next ==
    \/ \E c \in Clients : Check(c)
    \/ \E c \in Clients : Consume(c)
    \/ \E c \in Clients : Reset(c)
    \/ Clear
    \/ Cleanup
    \/ \E c \in Clients : GetClientState(c)
    \/ Tick

Spec == Init /\ [][Next]_vars

\* check() calls at non-decreasing times, with the periodic cleanup
NextCheck ==
    \/ \E c \in Clients : CheckTracked(c)
    \/ Cleanup
    \/ Tick

SpecCheck == Init /\ [][NextCheck]_vars

-----------------------------------------------------------------------------
(* A limiter constructed from any configuration *)

\* What the constructor accepts: it copies the three numbers as they are given
ConstructorPolicies ==
    [maxRequests : 0..MaxRequestsBound,
     windowMs : -1..MaxWindowMs,
     blockDurationMs : 0..MaxBlockMs]

InitConstruct ==
    /\ config \in ConstructorPolicies
    /\ options = DefaultOptions
    /\ NoTimer
    /\ InitState

NextConstruct ==
    \/ \E c \in Clients : Check(c)
    \/ Tick

SpecConstruct == InitConstruct /\ [][NextConstruct]_vars

-----------------------------------------------------------------------------
(* Logged runs: one client's check() calls and their results, in order *)

LoggedClient == "c1"

MaxLog == MaxRequestsBound + 2

CheckLogged(c) ==
    /\ Len(log) < MaxLog
    /\ CheckCore(c)
    /\ log' = Append(log, [at |-> now, result |-> CheckResult(GetOrCreate(c), now)])
    /\ UNCHANGED <<admitted, denyUntil>>

NextLog ==
    \/ CheckLogged(LoggedClient)
    \/ Tick

SpecLog == Init /\ [][NextLog]_vars

\* The policy of the test 'should unblock after block duration expires'
BlockTestPolicy == [maxRequests |-> 1, windowMs |-> 50, blockDurationMs |-> 100]

\* The moments of that scenario: the calls at 0, 10 and 105, the block's end
\* at 110, and the test's sleep(150) after the denial
ScenarioMoments == {0, 10, 105, 110, 160}

Sleep == \E t \in ScenarioMoments : t > now /\ Advance(t - now)

InitBlockTest ==
    /\ config = BlockTestPolicy
    /\ options = DefaultOptions
    /\ NoTimer
    /\ InitState

NextBlockTest ==
    \/ CheckLogged(LoggedClient)
    \/ Sleep

SpecBlockTest == InitBlockTest /\ [][NextBlockTest]_vars

-----------------------------------------------------------------------------
(* The cleanup timer, and the server's construction and destruction *)

\* the intervalMs argument of startCleanup(): left out, or a number
IntervalArgs == {[given |-> FALSE]} \cup [given : {TRUE}, ms : 1..MaxWindowMs]

\* intervalMs ?? this.config.windowMs * 2
IntervalOf(arg) == IF arg.given THEN arg.ms ELSE config.windowMs * 2

\* the id setInterval() hands out: one that no timer in use has
FreshTimer ==
    CHOOSE id \in 1..(Cardinality(DOMAIN timers) + 1) : id \notin DOMAIN timers

\* setInterval(callback, interval) at time t
SetInterval(map, id, interval, t) ==
    [x \in DOMAIN map \cup {id} |->
        IF x = id THEN [interval |-> interval, due |-> t + interval] ELSE map[x]]

\* clearInterval(id)
ClearInterval(map, id) == [x \in DOMAIN map \ {id} |-> map[x]]

\* Variant: startCleanup() sets a timer whether or not one is running
StartCleanupAlways(arg) ==
    /\ cleanupInterval' = <<FreshTimer>>
    /\ timers' = SetInterval(timers, FreshTimer, IntervalOf(arg), now)
    /\ lastCall' = [op |-> "startCleanup", given |-> arg.given,
                    interval |-> IntervalOf(arg)]
    /\ UNCHANGED <<handlers, options, pending, config, now, clients,
                   admitted, denyUntil, log>>

\* startCleanup(intervalMs)
StartCleanup(arg) ==
    /\ IF cleanupInterval # <<>>
       THEN UNCHANGED <<cleanupInterval, timers>>
       ELSE /\ cleanupInterval' = <<FreshTimer>>
            /\ timers' = SetInterval(timers, FreshTimer, IntervalOf(arg), now)
    /\ lastCall' = [op |-> "startCleanup", given |-> arg.given,
                    interval |-> IntervalOf(arg)]
    /\ UNCHANGED <<handlers, options, pending, config, now, clients,
                   admitted, denyUntil, log>>

\* what stopCleanup() leaves of the timers
StoppedTimers ==
    IF cleanupInterval # <<>> THEN ClearInterval(timers, cleanupInterval[1]) ELSE timers

\* stopCleanup()
StopCleanup ==
    /\ cleanupInterval' = <<>>
    /\ timers' = StoppedTimers
    /\ lastCall' = [op |-> "stopCleanup"]
    /\ UNCHANGED <<handlers, options, pending, config, now, clients,
                   admitted, denyUntil, log>>

\* a timer that is due runs its callback, () => this.cleanup(), and is due
\* again one interval later
TimerFires(id) ==
    /\ id \in DOMAIN timers
    /\ timers[id].due <= now
    /\ clients' = CleanupClients(clients, now)
    /\ timers' = [timers EXCEPT ![id].due = @ + timers[id].interval]
    /\ lastCall' = [op |-> "timer", id |-> id,
                    evicted |-> DOMAIN clients \ DOMAIN CleanupClients(clients, now)]
    /\ UNCHANGED <<handlers, options, pending, config, cleanupInterval, now,
                   admitted, denyUntil, log>>

\* no timer is due
TimersQuiet == \A id \in DOMAIN timers : timers[id].due > now

\* time passes; a timer that is due fires first
TimerTick == now < MaxTime /\ TimersQuiet /\ Advance(1)

\* what the last destroy() calls found: only the first of a row counts
DestroyFound ==
    IF lastCall.op = "destroy" THEN lastCall.found
    ELSE [timer |-> cleanupInterval # <<>>,
          clients |-> clients # <<>>,
          handlers |-> handlers # <<>>]

\* Variant: destroy() leaves the timer running
DestroyKeepsTimer ==
    /\ clients' = <<>>
    /\ handlers' = <<>>
    /\ lastCall' = [op |-> "destroy", again |-> lastCall.op = "destroy",
                    found |-> DestroyFound]
    /\ UNCHANGED <<options, pending, config, cleanupInterval, timers, now,
                   admitted, denyUntil, log>>

\* destroy(): stopCleanup(), clear(), handlers.clear()
Destroy ==
    /\ cleanupInterval' = <<>>
    /\ timers' = StoppedTimers
    /\ clients' = <<>>
    /\ handlers' = <<>>
    /\ lastCall' = [op |-> "destroy", again |-> lastCall.op = "destroy",
                    found |-> DestroyFound]
    /\ UNCHANGED <<options, pending, config, now, admitted, denyUntil, log>>

\* the server's constructor has called startCleanup() at time 0
ConstructorTimer ==
    /\ cleanupInterval = <<1>>
    /\ timers = SetInterval(<<>>, 1, config.windowMs * 2, 0)

-----------------------------------------------------------------------------
(* The message gate: RateLimitedWebSocketServer *)

\* at most this many handleMessage() calls wait for their handler's promise
MaxPending == 1

\* the server is watched until Date.now() reaches this value
MaxGateTime == 2

\* CloseCode.RATE_LIMITED
RATE_LIMITED == 4029

MessageTypes == {"ping"}

\* What a registered handler does when it is called: return, throw, or return
\* a promise that settles later
Behaviours == {"returns", "throws", "async"}

\* the options a server can be constructed with
Options ==
    [onRateLimitExceeded : {"noop", "observer"}, closeOnRateLimit : BOOLEAN,
     getClientId : {"id"}]

\* The getClientId functions of the model: client.id (the default),
\* `custom-${client.id}`, and one key for every connection
Extractors == {"id", "custom", "shared"}

Extractor(name, c) ==
    CASE name = "id" -> c
      [] name = "custom" -> IF c = "c1" THEN "custom-c1" ELSE "custom-c2"
      [] name = "shared" -> "user"

\* Variant: the key is client.id whatever the options say
GetClientIdIgnoresOption(c) == c

\* this.config.getClientId(client)
GetClientId(c) == Extractor(options.getClientId, c)

\* The raw messages of the model: texts as they arrive on the socket
RawMessages ==
    {"{", "null", "42", "\"ping\"", "[]", "{}",
     "{\"type\":\"\"}", "{\"type\":7}", "{\"type\":\"ping\"}"}

JUndefined == [kind |-> "undefined"]
JNull == [kind |-> "null"]
JNumber(n) == [kind |-> "number", num |-> n]
JString(str) == [kind |-> "string", str |-> str]
JArray == [kind |-> "array"]
JObject(fields) == [kind |-> "object", fields |-> fields]

\* JSON.parse(rawMessage): the value, or the SyntaxError it throws
JSONParse(raw) ==
    CASE raw = "null" -> JNull
      [] raw = "42" -> JNumber(42)
      [] raw = "\"ping\"" -> JString("ping")
      [] raw = "[]" -> JArray
      [] raw = "{}" -> JObject(<<>>)
      [] raw = "{\"type\":\"\"}" -> JObject([type |-> JString("")])
      [] raw = "{\"type\":7}" -> JObject([type |-> JNumber(7)])
      [] raw = "{\"type\":\"ping\"}" -> JObject([type |-> JString("ping")])
      [] OTHER -> [kind |-> "SyntaxError"]

\* message.type: a property read throws a TypeError on null, gives undefined
\* where the property is missing
ReadType(message) ==
    IF message.kind = "null" THEN [kind |-> "TypeError"]
    ELSE IF message.kind = "object" /\ "type" \in DOMAIN message.fields
         THEN message.fields.type
         ELSE JUndefined

\* JavaScript truthiness of a value
Truthy(v) ==
    CASE v.kind = "undefined" -> FALSE
      [] v.kind = "null" -> FALSE
      [] v.kind = "number" -> v.num # 0
      [] v.kind = "string" -> v.str # ""
      [] OTHER -> TRUE

\* !message.type || typeof message.type !== 'string'
MissingType(type) == ~Truthy(type) \/ type.kind # "string"

\* createErrorResponse(code, {retryAfterMs}): the fields the model keeps
CreateErrorResponse(code, retryAfterMs) ==
    IF retryAfterMs # 0
    THEN [code |-> code, retryAfterMs |-> retryAfterMs]
    ELSE [code |-> code]

ErrorPayload(code) == CreateErrorResponse(code, 0)

\* what one handleMessage() call did besides the limiter's check()
Effects(sent, completion) ==
    [sent |-> sent, parsed |-> TRUE, invoked |-> <<>>, callbacks |-> <<>>,
     closed |-> <<>>, completion |-> completion]

\* Variant: the denial branch leaves the callback out
RateLimitEffectsNoCallback(c, result) ==
    [sent |-> <<CreateErrorResponse("RATE_LIMIT_EXCEEDED", result.resetMs)>>,
     parsed |-> FALSE,
     invoked |-> <<>>,
     callbacks |-> <<>>,
     closed |-> IF options.closeOnRateLimit THEN <<RATE_LIMITED>> ELSE <<>>,
     completion |-> "resolved"]

\* Variant: the denial branch closes the connection whatever the options say
RateLimitEffectsAlwaysCloses(c, result) ==
    [sent |-> <<CreateErrorResponse("RATE_LIMIT_EXCEEDED", result.resetMs)>>,
     parsed |-> FALSE,
     invoked |-> <<>>,
     callbacks |-> <<[fn |-> options.onRateLimitExceeded, client |-> c,
                      result |-> result]>>,
     closed |-> <<RATE_LIMITED>>,
     completion |-> "resolved"]

\* the statements of a denial branch, in program order: client.send(...),
\* then the callback when there is one, then client.close(...) when configured
DenialSteps(c, result) ==
    <<[do |-> "send",
       payload |-> CreateErrorResponse("RATE_LIMIT_EXCEEDED", result.resetMs)]>>
    \o (IF options.onRateLimitExceeded # "none"
        THEN <<[do |-> "callback", fn |-> options.onRateLimitExceeded,
                client |-> c, result |-> result]>>
        ELSE <<>>)
    \o (IF options.closeOnRateLimit
        THEN <<[do |-> "close", code |-> RATE_LIMITED]>>
        ELSE <<>>)

\* Variant: the denial branch closes the connection before it sends
RateLimitEffectsClosesFirst(c, result) ==
    [sent |-> <<CreateErrorResponse("RATE_LIMIT_EXCEEDED", result.resetMs)>>,
     parsed |-> FALSE,
     invoked |-> <<>>,
     callbacks |-> <<[fn |-> options.onRateLimitExceeded, client |-> c,
                      result |-> result]>>,
     closed |-> IF options.closeOnRateLimit THEN <<RATE_LIMITED>> ELSE <<>>,
     completion |-> "resolved",
     steps |-> [i \in 1..Len(DenialSteps(c, result)) |->
                    DenialSteps(c, result)[Len(DenialSteps(c, result)) + 1 - i]]]

\* the denial branch of handleMessage()
RateLimitEffects(c, result) ==
    [sent |-> <<CreateErrorResponse("RATE_LIMIT_EXCEEDED", result.resetMs)>>,
     parsed |-> FALSE,
     invoked |-> <<>>,
     callbacks |-> <<[fn |-> options.onRateLimitExceeded, client |-> c,
                      result |-> result]>>,
     closed |-> IF options.closeOnRateLimit THEN <<RATE_LIMITED>> ELSE <<>>,
     completion |-> "resolved",
     steps |-> DenialSteps(c, result)]

\* Variant: a handler's exception is swallowed without a payload
HandlerEffectsSwallows(type, behaviour) ==
    [Effects(<<>>, "resolved") EXCEPT
        !.invoked = <<type>>,
        !.completion = IF behaviour = "async" THEN "pending" ELSE "resolved"]

\* try { await handler(client, message) } catch { ... send HANDLER_ERROR }
HandlerEffects(type, behaviour) ==
    [Effects(<<>>, "resolved") EXCEPT
        !.invoked = <<type>>,
        !.sent = IF behaviour = "throws" THEN <<ErrorPayload("HANDLER_ERROR")>> ELSE <<>>,
        !.completion = IF behaviour = "async" THEN "pending" ELSE "resolved"]

\* Variant: a message of an unregistered type is dropped without a payload
DispatchEffectsSilentUnknown(raw) ==
    LET message == JSONParse(raw)
        type == ReadType(message)
    IN  IF message.kind = "SyntaxError"
        THEN Effects(<<ErrorPayload("INVALID_JSON")>>, "resolved")
        ELSE IF type.kind = "TypeError"
        THEN Effects(<<>>, "rejected")
        ELSE IF MissingType(type)
        THEN Effects(<<ErrorPayload("MISSING_TYPE")>>, "resolved")
        ELSE IF type.str \notin DOMAIN handlers
        THEN Effects(<<>>, "resolved")
        ELSE HandlerEffects(type.str, handlers[type.str])

\* handleMessage() after an admission: parse, type test, lookup, handler
DispatchEffects(raw) ==
    LET message == JSONParse(raw)
        type == ReadType(message)
    IN  IF message.kind = "SyntaxError"
        THEN Effects(<<ErrorPayload("INVALID_JSON")>>, "resolved")
        ELSE IF type.kind = "TypeError"
        THEN Effects(<<>>, "rejected")
        ELSE IF MissingType(type)
        THEN Effects(<<ErrorPayload("MISSING_TYPE")>>, "resolved")
        ELSE IF type.str \notin DOMAIN handlers
        THEN Effects(<<ErrorPayload("UNKNOWN_MESSAGE_TYPE")>>, "resolved")
        ELSE HandlerEffects(type.str, handlers[type.str])

HandleMessageEffects(c, raw, result) ==
    IF ~result.allowed THEN RateLimitEffects(c, result) ELSE DispatchEffects(raw)

\* Variant: the limiter is asked only for a message that parses
HandleMessageParsesFirst(c, raw) ==
    LET clientId == GetClientId(c)
        state == GetOrCreate(clientId)
        result == CheckResult(state, now)
        effects == HandleMessageEffects(c, raw, result)
    IN  /\ effects.completion = "pending" => Len(pending) < MaxPending
        /\ clients' = IF JSONParse(raw).kind = "SyntaxError" THEN clients
                      ELSE Put(clients, clientId, CheckState(state, now))
        /\ pending' = IF effects.completion = "pending"
                      THEN Append(pending, [clientId |-> c, type |-> effects.invoked[1]])
                      ELSE pending
        /\ lastCall' = [op |-> "handleMessage", client |-> c, clientId |-> clientId,
                        rawMessage |-> raw, result |-> result, effects |-> effects]
        /\ UNCHANGED <<handlers, options, config, cleanupInterval, timers,
                       now, admitted, denyUntil, log>>

\* Variant: a message waits until no handler is awaited any more
HandleMessageSerialised(c, raw) ==
    LET clientId == GetClientId(c)
        state == GetOrCreate(clientId)
        result == CheckResult(state, now)
        effects == HandleMessageEffects(c, raw, result)
    IN  /\ pending = <<>>
        /\ clients' = Put(clients, clientId, CheckState(state, now))
        /\ pending' = IF effects.completion = "pending"
                      THEN Append(pending, [clientId |-> c, type |-> effects.invoked[1]])
                      ELSE pending
        /\ lastCall' = [op |-> "handleMessage", client |-> c, clientId |-> clientId,
                        rawMessage |-> raw, result |-> result, effects |-> effects]
        /\ UNCHANGED <<handlers, options, config, cleanupInterval, timers,
                       now, admitted, denyUntil, log>>

\* handleMessage(client, rawMessage), up to its return or its suspension at
\* the handler's promise
HandleMessage(c, raw) ==
    LET clientId == GetClientId(c)
        state == GetOrCreate(clientId)
        result == CheckResult(state, now)
        effects == HandleMessageEffects(c, raw, result)
    IN  /\ effects.completion = "pending" => Len(pending) < MaxPending
        /\ clients' = Put(clients, clientId, CheckState(state, now))
        /\ pending' = IF effects.completion = "pending"
                      THEN Append(pending, [clientId |-> c, type |-> effects.invoked[1]])
                      ELSE pending
        /\ lastCall' = [op |-> "handleMessage", client |-> c, clientId |-> clientId,
                        rawMessage |-> raw, result |-> result, effects |-> effects]
        /\ UNCHANGED <<handlers, options, config, cleanupInterval, timers,
                       now, admitted, denyUntil, log>>

\* the promise a handler returned settles; a rejection lands in the catch block
Settle(i, fulfilled) ==
    /\ i \in 1..Len(pending)
    /\ pending' = SubSeq(pending, 1, i - 1) \o SubSeq(pending, i + 1, Len(pending))
    /\ lastCall' = [op |-> "settle", clientId |-> pending[i].clientId,
                    type |-> pending[i].type, fulfilled |-> fulfilled,
                    sent |-> IF fulfilled THEN <<>>
                             ELSE <<ErrorPayload("HANDLER_ERROR")>>]
    /\ UNCHANGED <<handlers, options, config, cleanupInterval, timers,
                   now, clients, admitted, denyUntil, log>>

\* Variant: on() keeps the handler a type already has
OnKeepsFirst(type, behaviour) ==
    /\ handlers' = [t \in DOMAIN handlers \cup {type} |->
                        IF t \in DOMAIN handlers THEN handlers[t] ELSE behaviour]
    /\ lastCall' = [op |-> "on", type |-> type, handler |-> behaviour]
    /\ UNCHANGED <<options, pending, config, cleanupInterval, timers,
                   now, clients, admitted, denyUntil, log>>

\* on(messageType, handler)
On(type, behaviour) ==
    /\ handlers' = [t \in DOMAIN handlers \cup {type} |->
                        IF t = type THEN behaviour ELSE handlers[t]]
    /\ lastCall' = [op |-> "on", type |-> type, handler |-> behaviour]
    /\ UNCHANGED <<options, pending, config, cleanupInterval, timers,
                   now, clients, admitted, denyUntil, log>>

\* Variant: off() also drops the suspended calls of that type
OffCancels(type) ==
    /\ handlers' = [t \in DOMAIN handlers \ {type} |-> handlers[t]]
    /\ pending' = SelectSeq(pending, LAMBDA p : p.type # type)
    /\ lastCall' = [op |-> "off", type |-> type]
    /\ UNCHANGED <<options, config, cleanupInterval, timers,
                   now, clients, admitted, denyUntil, log>>

\* off(messageType)
Off(type) ==
    /\ handlers' = [t \in DOMAIN handlers \ {type} |-> handlers[t]]
    /\ lastCall' = [op |-> "off", type |-> type]
    /\ UNCHANGED <<options, pending, config, cleanupInterval, timers,
                   now, clients, admitted, denyUntil, log>>

\* the policies the server of the model is constructed with
GatePolicies == [maxRequests : {1}, windowMs : {1}, blockDurationMs : {0, 1}]

InitGate ==
    /\ config \in GatePolicies
    /\ options \in Options
    /\ ConstructorTimer
    /\ InitState

\* time passes while the cleanup timer is not due
GateTick == now < MaxGateTime /\ TimersQuiet /\ Advance(1)

\* The server at work until the cleanup timer is first due (2 * windowMs):
\* messages, settling promises, registrations, time
NextGate ==
    \/ \E c \in Clients, raw \in RawMessages : HandleMessage(c, raw)
    \/ \E i \in 1..MaxPending, fulfilled \in BOOLEAN : Settle(i, fulfilled)
    \/ \E type \in MessageTypes, behaviour \in Behaviours : On(type, behaviour)
    \/ \E type \in MessageTypes : Off(type)
    \/ GateTick

SpecGate == InitGate /\ [][NextGate]_vars

\* two raw messages that never reach a handler, and one that does
ProbeMessages == {"{", "{}", "{\"type\":\"ping\"}"}

InitSuspend ==
    /\ config \in GatePolicies
    /\ options = DefaultOptions
    /\ ConstructorTimer
    /\ InitState

\* A server with default options whose handlers may stay suspended for ever
NextSuspend ==
    \/ \E c \in Clients, raw \in ProbeMessages : HandleMessage(c, raw)
    \/ \E i \in 1..MaxPending, fulfilled \in BOOLEAN : Settle(i, fulfilled)
    \/ \E type \in MessageTypes, behaviour \in Behaviours : On(type, behaviour)
    \/ \E type \in MessageTypes : Off(type)
    \/ GateTick

SpecSuspend == InitSuspend /\ [][NextSuspend]_vars

InitExtractor ==
    /\ config \in GatePolicies
    /\ options \in [onRateLimitExceeded : {"noop"}, closeOnRateLimit : {FALSE},
                     getClientId : Extractors]
    /\ ConstructorTimer
    /\ InitState

\* A server constructed with one of the getClientId functions
NextExtractor ==
    \/ \E c \in Clients, raw \in ProbeMessages : HandleMessage(c, raw)
    \/ \E i \in 1..MaxPending, fulfilled \in BOOLEAN : Settle(i, fulfilled)
    \/ \E type \in MessageTypes, behaviour \in Behaviours : On(type, behaviour)
    \/ GateTick

SpecExtractor == InitExtractor /\ [][NextExtractor]_vars

InitTimer ==
    /\ config \in GatePolicies
    /\ options = DefaultOptions
    /\ ConstructorTimer
    /\ InitState

\* The server from construction on, with handlers that return, its cleanup
\* timer, the limiter's startCleanup() and stopCleanup(), and destroy()
NextTimer ==
    \/ \E c \in Clients, raw \in ProbeMessages : HandleMessage(c, raw)
    \/ \E type \in MessageTypes : On(type, "returns")
    \/ \E arg \in IntervalArgs : StartCleanup(arg)
    \/ StopCleanup
    \/ \E id \in DOMAIN timers : TimerFires(id)
    \/ Destroy
    \/ TimerTick

SpecTimer == InitTimer /\ [][NextTimer]_vars

-----------------------------------------------------------------------------
(* Claims *)

\* the client and the result of the check() that ran last
LastClient == lastCall.clientId
LastResult == lastCall.result
IsCheck == lastCall.op = "check"

\* C1: for every client, the check() calls admitted within any trailing window
\* (now - windowMs, now] never number more than maxRequests.
C1_AdmittedWithinWindow ==
    \A c \in Clients : Len(admitted[c]) <= config.maxRequests

\* C2: a check() made while exactly maxRequests admitted calls of the client are
\* inside the window is denied with remaining = 0.
C2_DeniedAtQuota ==
    (IsCheck /\ lastCall.count = config.maxRequests)
        => (~LastResult.allowed /\ LastResult.remaining = 0)

\* a client is tracked with a block whose deadline lies ahead
BlockAhead(map, c, t) ==
    c \in DOMAIN map /\ HasBlock(map[c]) /\ t < map[c].blockedUntil

\* C3: with blockDurationMs > 0, a denial at window-full at time d sets the
\* deadline d + blockDurationMs; until then every check() of the client is
\* denied with blocked = true, remaining = 0 and resetMs = deadline - now, and
\* nothing but reset() or clear() moves or removes the deadline.
C3_BlockHolds ==
    [][\A c \in Clients :
        LET checked == lastCall'.op = "check" /\ lastCall'.clientId = c
        IN  /\ (checked /\ config.blockDurationMs > 0 /\ ~BlockAhead(clients, c, now)
                    /\ ~lastCall'.result.allowed)
                => /\ lastCall'.result =
                        [allowed |-> FALSE, remaining |-> 0,
                         resetMs |-> config.blockDurationMs, blocked |-> TRUE]
                   /\ BlockAhead(clients', c, now)
                   /\ clients'[c].blockedUntil = now + config.blockDurationMs
            /\ (checked /\ BlockAhead(clients, c, now))
                => lastCall'.result =
                        [allowed |-> FALSE, remaining |-> 0,
                         resetMs |-> clients[c].blockedUntil - now, blocked |-> TRUE]
            /\ (BlockAhead(clients, c, now)
                    /\ ~(lastCall'.op = "reset" /\ lastCall'.clientId = c)
                    /\ lastCall'.op # "clear")
                => /\ c \in DOMAIN clients'
                   /\ HasBlock(clients'[c])
                   /\ clients'[c].blockedUntil = clients[c].blockedUntil
    ]_vars

\* a check() met an active block some time after the denial that set it
C3_Witness ==
    /\ IsCheck
    /\ ~LastResult.allowed
    /\ LastResult.blocked
    /\ LastResult.resetMs < config.blockDurationMs

\* C4: with blockDurationMs > 0 and maxRequests > 0, the first check() of a
\* client at or after its block deadline is admitted with
\* remaining = maxRequests - 1, whether or not cleanup() ran in between.
C4_FreshWindowAfterBlock ==
    (IsCheck /\ config.blockDurationMs > 0 /\ config.maxRequests > 0
        /\ lastCall.until # <<>> /\ now >= lastCall.until[1])
        => (LastResult.allowed /\ LastResult.remaining = config.maxRequests - 1)

\* the logged calls were made at exactly these moments
LoggedAt(moments) ==
    /\ Len(log) = Len(moments)
    /\ \A i \in 1..Len(log) : log[i].at = moments[i]

DeniedBlocked(ms) ==
    [allowed |-> FALSE, remaining |-> 0, resetMs |-> ms, blocked |-> TRUE]

\* C5 as stated: under {maxRequests 1, windowMs 50, blockDurationMs 100},
\* check() at 0 is admitted, at 10 denied with blocked = true and resetMs = 100,
\* at 105 admitted.
C5_Original ==
    LoggedAt(<<0, 10, 105>>)
        => /\ log[1].result.allowed
           /\ log[2].result = DeniedBlocked(100)
           /\ log[3].result.allowed

\* C5 amended: check() at 0 is admitted, at 10 denied with blocked = true and
\* resetMs = 100; the block runs until 110, so check() at 105 is denied with
\* blocked = true and resetMs = 5, and check() at 110 is admitted.
C5_BlockScenario ==
    /\ LoggedAt(<<0, 10, 105>>)
        => /\ log[1].result.allowed
           /\ log[2].result = DeniedBlocked(100)
           /\ log[3].result = DeniedBlocked(5)
    /\ LoggedAt(<<0, 10, 110>>)
        => /\ log[1].result.allowed
           /\ log[2].result = DeniedBlocked(100)
           /\ log[3].result.allowed

C5_Witness == LoggedAt(<<0, 10, 105>>)

\* C6: with no block configured, a denial at window-full reports
\* blocked = false and resetMs = oldest + windowMs - now; every later check()
\* before oldest + windowMs is denied and reports the same moment, and the
\* check() at exactly oldest + windowMs is admitted.
C6_NaturalExpiry ==
    (IsCheck /\ config.blockDurationMs = 0)
        => /\ (~LastResult.allowed /\ admitted[LastClient] # <<>>)
                => /\ LastResult.blocked = FALSE
                   /\ LastResult.resetMs =
                        admitted[LastClient][1] + config.windowMs - now
           /\ (lastCall.until # <<>> /\ now < lastCall.until[1])
                => /\ ~LastResult.allowed
                   /\ LastResult.resetMs = lastCall.until[1] - now
           /\ (lastCall.until # <<>> /\ now = lastCall.until[1])
                => LastResult.allowed

\* a client denied at window-full is admitted at the announced moment
C6_Witness ==
    /\ IsCheck
    /\ config.blockDurationMs = 0
    /\ lastCall.until # <<>>
    /\ now = lastCall.until[1]
    /\ LastResult.allowed

\* C7: with maxRequests > 0, the check() that directly follows reset() of the
\* same client returns what a never-seen client gets: allowed, remaining =
\* maxRequests - 1, no blocked flag, and the client's state holds this one request.
C7_ResetThenCheck ==
    (IsCheck /\ lastCall.afterReset # "no" /\ config.maxRequests > 0)
        => /\ LastResult = [allowed |-> TRUE,
                            remaining |-> config.maxRequests - 1,
                            resetMs |-> config.windowMs]
           /\ clients[LastClient] = [requests |-> <<now>>]

\* reset() of an actively blocked client, then its check()
C7_Witness ==
    /\ IsCheck
    /\ lastCall.afterReset = "blocked"
    /\ LastResult.allowed

\* C8: cleanup() at time now removes a tracked client's entry if and only if
\* the client has no timestamp in (now - windowMs, now] and no block with
\* blockedUntil > now; it adds no entry.
C8_SweepEvictsIff ==
    [][lastCall'.op = "cleanup"
        => /\ DOMAIN clients' \subseteq DOMAIN clients
           /\ \A c \in DOMAIN clients :
                (c \notin DOMAIN clients')
                    <=> /\ \A i \in 1..Len(clients[c].requests) :
                                clients[c].requests[i] <= now - config.windowMs
                        /\ ~(HasBlock(clients[c]) /\ clients[c].blockedUntil > now)
    ]_vars

\* one cleanup() evicted an idle client and kept an actively blocked one
C8_Witness ==
    /\ lastCall.op = "cleanup"
    /\ lastCall.evicted # {}
    /\ \E c \in DOMAIN clients : IsBlocked(clients[c], now)

\* the first k logged calls were made at the same instant
SameInstant(k) == \A j \in 1..k : log[j].at = log[1].at

\* C9: for a never-seen client, maxRequests = N > 0 and no block, N check()
\* calls at one instant are admitted with remaining N-1, ..., 0; the next at
\* that instant is denied with remaining = 0 and blocked = false; a check()
\* more than windowMs later is admitted.
C9_Burst ==
    (config.maxRequests > 0 /\ config.blockDurationMs = 0)
        => LET N == config.maxRequests
           IN  /\ \A k \in 1..Len(log) :
                    SameInstant(k)
                        => /\ k <= N
                                => /\ log[k].result.allowed
                                   /\ log[k].result.remaining = N - k
                           /\ k = N + 1
                                => /\ ~log[k].result.allowed
                                   /\ log[k].result.remaining = 0
                                   /\ log[k].result.blocked = FALSE
               /\ (Len(log) = N + 2 /\ SameInstant(N + 1)
                        /\ log[N + 2].at > log[1].at + config.windowMs)
                    => log[N + 2].result.allowed

\* the whole scenario with N = 2: two admissions, a denial, an admission later
C9_Witness ==
    /\ config.maxRequests = 2
    /\ config.blockDurationMs = 0
    /\ Len(log) = 4
    /\ SameInstant(3)
    /\ log[4].at > log[1].at + config.windowMs

\* C10 as stated: an admission reports resetMs = oldest + windowMs - now for
\* the oldest timestamp before the append, and 0 if the sequence was empty.
C10_Original ==
    (IsCheck /\ LastResult.allowed)
        => LET requests == clients[LastClient].requests
           IN  IF Len(requests) > 1
               THEN LastResult.resetMs = requests[1] + config.windowMs - now
               ELSE LastResult.resetMs = 0

\* C10 amended: an admission reports resetMs = oldest + windowMs - now for the
\* oldest timestamp before the append, and windowMs if the sequence was empty.
C10_ResetOnAdmit ==
    (IsCheck /\ LastResult.allowed)
        => LET requests == clients[LastClient].requests
           IN  IF Len(requests) > 1
               THEN LastResult.resetMs = requests[1] + config.windowMs - now
               ELSE LastResult.resetMs = config.windowMs

\* the first request of a never-seen client, admitted
C10_Witness ==
    /\ IsCheck
    /\ LastResult.allowed
    /\ Len(clients[LastClient].requests) = 1
    /\ lastCall.afterReset = "no"

\* C11: a check() that finds an active block changes nothing in the limiter:
\* the client's requests and blockedUntil and every other client's state are
\* the same before and after the call.
C11_BlockedCheckFrame ==
    [][\A c \in Clients :
        (lastCall'.op = "check" /\ lastCall'.clientId = c /\ BlockAhead(clients, c, now))
            => clients' = clients
    ]_vars

\* a check() met an active block while both clients were tracked
C11_Witness ==
    /\ IsCheck
    /\ ~LastResult.allowed
    /\ LastResult.blocked
    /\ LastResult.resetMs < config.blockDurationMs
    /\ DOMAIN clients = Clients

\* no timestamp of the sequence is at or before now - windowMs
NoStale(requests, t) ==
    \A i \in 1..Len(requests) : requests[i] > t - config.windowMs

\* C12: right after check() past the block test, cleanup() or consume(), the
\* sequence the operation touched holds no timestamp <= now - windowMs.
C12_NoStaleAfterTouch ==
    [][/\ \A c \in Clients :
            (lastCall'.op = "check" /\ lastCall'.clientId = c
                /\ ~BlockAhead(clients, c, now))
                => NoStale(clients'[c].requests, now)
       /\ lastCall'.op = "cleanup"
            => \A c \in DOMAIN clients' : NoStale(clients'[c].requests, now)
       /\ lastCall'.op = "consume"
            => \A c \in DOMAIN clients' :
                    (c \in DOMAIN clients /\ clients'[c] # clients[c])
                        => NoStale(clients'[c].requests, now)
    ]_vars

\* what getClientState(c) has to return in the current state
SnapshotOK(c) ==
    LET r == GetClientStateResult(clients, c, now)
    IN  IF c \notin DOMAIN clients
        THEN r = [found |-> FALSE]
        ELSE LET state == clients[c]
                 inWindow == {i \in 1..Len(state.requests) :
                                state.requests[i] > now - config.windowMs}
             IN  /\ r.found
                 /\ r.requestCount = Cardinality(inWindow)
                 /\ r.blocked = (HasBlock(state) /\ state.blockedUntil > now)
                 /\ HasBlock(state) <=> "blockedUntil" \in DOMAIN r
                 /\ HasBlock(state) => r.blockedUntil = state.blockedUntil

\* C13: getClientState() changes nothing: the stored sequences stay untrimmed,
\* the blocks stay, no entry is created; it returns the count of timestamps in
\* (now - windowMs, now], whether blockedUntil > now and the raw blockedUntil,
\* and null for an untracked client.
C13_InspectIsPure ==
    [][lastCall'.op = "getClientState"
        => /\ clients' = clients
           /\ \A c \in Clients : SnapshotOK(c)
    ]_vars

\* getClientState() ran while one client held a stale timestamp and the other
\* was untracked
C13_Witness ==
    /\ lastCall.op = "getClientState"
    /\ \E c \in DOMAIN clients : ~NoStale(clients[c].requests, now)
    /\ DOMAIN clients # Clients

\* C14: every result of check() has remaining >= 0 and resetMs >= 0, also
\* once consume() has taken the stored count above maxRequests.
C14_ResultNonNegative ==
    IsCheck => (LastResult.remaining >= 0 /\ LastResult.resetMs >= 0)

\* a check() of a client whose stored count in the window exceeds maxRequests
C14_Witness ==
    /\ IsCheck
    /\ Len(Trim(clients[LastClient].requests, now)) > config.maxRequests

IsHandle == lastCall.op = "handleMessage"
LastEffects == lastCall.effects

\* the category codes of a sequence of payloads
Codes(sent) == [i \in 1..Len(sent) |-> sent[i].code]

\* the raw message parses
Parses(raw) == JSONParse(raw).kind # "SyntaxError"

\* the parsed value is an object with a non-empty string in its type field
HasStringType(message) ==
    /\ message.kind = "object"
    /\ "type" \in DOMAIN message.fields
    /\ message.fields.type.kind = "string"
    /\ message.fields.type.str # ""

PingMessage == "{\"type\":\"ping\"}"

\* C15: when the limiter denies a message, handleMessage() does not parse it,
\* calls no handler, and calls onRateLimitExceeded exactly once with the client
\* and the result; for an admitted message the callback is not called.
C15_DenialStopsProcessing ==
    IsHandle =>
        IF ~LastResult.allowed
        THEN /\ ~LastEffects.parsed
             /\ LastEffects.invoked = <<>>
             /\ LastEffects.callbacks =
                    <<[fn |-> options.onRateLimitExceeded, client |-> lastCall.client,
                       result |-> LastResult]>>
        ELSE LastEffects.callbacks = <<>>

\* a well-formed message with a registered handler was denied, with an
\* observer configured
C15_Witness ==
    /\ IsHandle
    /\ ~LastResult.allowed
    /\ options.onRateLimitExceeded = "observer"
    /\ lastCall.rawMessage = PingMessage
    /\ "ping" \in DOMAIN handlers

\* C16: handleMessage() closes the connection only on a denial and only when
\* closeOnRateLimit is true, and then with code 4029; with the default options
\* it never calls close.
C16_CloseOnlyOnDenial ==
    IsHandle =>
        /\ LastEffects.closed # <<>> =>
                /\ ~LastResult.allowed
                /\ options.closeOnRateLimit
                /\ LastEffects.closed = <<4029>>
        /\ (~LastResult.allowed /\ options.closeOnRateLimit) => LastEffects.closed # <<>>
        /\ options = DefaultOptions => LastEffects.closed = <<>>

\* a denial closed the connection
C16_Witness ==
    /\ IsHandle
    /\ ~LastResult.allowed
    /\ LastEffects.closed = <<4029>>

\* C17: an admitted message that parses but has no non-empty string type (no
\* type, type "" or not a string, or a value that is not an object: null, a
\* number, a string, an array) gets one MISSING_TYPE payload, no handler call,
\* and the call completes normally.
C17_MissingType ==
    (/\ IsHandle
     /\ LastResult.allowed
     /\ Parses(lastCall.rawMessage)
     /\ ~HasStringType(JSONParse(lastCall.rawMessage)))
        => /\ Codes(LastEffects.sent) = <<"MISSING_TYPE">>
           /\ LastEffects.invoked = <<>>
           /\ LastEffects.completion = "resolved"

\* C18: an admitted message with a well-formed type that has no registered
\* handler gets one UNKNOWN_MESSAGE_TYPE payload, no handler call, and the
\* handlers map is the same after the call.
C18_UnknownType ==
    [][(/\ lastCall'.op = "handleMessage"
        /\ lastCall'.result.allowed
        /\ Parses(lastCall'.rawMessage)
        /\ HasStringType(JSONParse(lastCall'.rawMessage))
        /\ JSONParse(lastCall'.rawMessage).fields.type.str \notin DOMAIN handlers)
            => /\ Codes(lastCall'.effects.sent) = <<"UNKNOWN_MESSAGE_TYPE">>
               /\ lastCall'.effects.invoked = <<>>
               /\ lastCall'.effects.completion = "resolved"
               /\ handlers' = handlers
    ]_vars

\* {"type":"ping"} arrived with no handler registered and was answered
C18_Witness ==
    /\ IsHandle
    /\ lastCall.rawMessage = PingMessage
    /\ Codes(LastEffects.sent) = <<"UNKNOWN_MESSAGE_TYPE">>
    /\ handlers = <<>>

\* C19: when a handler throws, or the promise it returned rejects, the gate
\* sends exactly one HANDLER_ERROR payload to the sender, and the handlers map
\* and the limiter's state are what they are after a handler that succeeded.
C19_HandlerFault ==
    [][/\ (/\ lastCall'.op = "handleMessage"
           /\ lastCall'.effects.invoked # <<>>
           /\ handlers[lastCall'.effects.invoked[1]] = "throws")
            => /\ Codes(lastCall'.effects.sent) = <<"HANDLER_ERROR">>
               /\ lastCall'.effects.completion = "resolved"
               /\ handlers' = handlers
               /\ pending' = pending
               /\ clients' = Put(clients, lastCall'.clientId,
                                 CheckState(GetOrCreate(lastCall'.clientId), now))
       /\ (lastCall'.op = "settle" /\ ~lastCall'.fulfilled)
            => /\ Codes(lastCall'.sent) = <<"HANDLER_ERROR">>
               /\ \E i \in 1..Len(pending) : lastCall'.clientId = pending[i].clientId
               /\ handlers' = handlers
               /\ clients' = clients
       /\ (lastCall'.op = "settle" /\ lastCall'.fulfilled)
            => /\ lastCall'.sent = <<>>
               /\ handlers' = handlers
               /\ clients' = clients
    ]_vars

\* a handler threw while the other client was tracked too
C19_Witness ==
    /\ IsHandle
    /\ LastEffects.invoked = <<"ping">>
    /\ Codes(LastEffects.sent) = <<"HANDLER_ERROR">>
    /\ DOMAIN clients = Clients

\* the payloads a handleMessage() call owes its message, up to its return or
\* its suspension
OwedCodes ==
    LET raw == lastCall.rawMessage
        message == JSONParse(raw)
    IN  IF ~LastResult.allowed THEN <<"RATE_LIMIT_EXCEEDED">>
        ELSE IF ~Parses(raw) THEN <<"INVALID_JSON">>
        ELSE IF ~HasStringType(message) THEN <<"MISSING_TYPE">>
        ELSE IF message.fields.type.str \notin DOMAIN handlers
        THEN <<"UNKNOWN_MESSAGE_TYPE">>
        ELSE IF handlers[message.fields.type.str] = "throws" THEN <<"HANDLER_ERROR">>
        ELSE <<>>

\* C20: every handleMessage() call sends exactly one payload of the matching
\* category when the message is denied, unparseable, without type, of an
\* unknown type, or its handler fails, and none when the handler succeeds.
C20_OnePayloadPerOutcome ==
    /\ IsHandle => Codes(LastEffects.sent) = OwedCodes
    /\ lastCall.op = "settle" =>
            Codes(lastCall.sent) = IF lastCall.fulfilled THEN <<>> ELSE <<"HANDLER_ERROR">>

\* C21: handleMessage() never fails toward its caller, whatever the raw
\* message (unparseable, parsed to any value, null included) and whatever the
\* handler does.
C21_NeverRejects ==
    IsHandle => LastEffects.completion # "rejected"

\* C28: with maxRequests = 0 every check() is denied with remaining = 0 and
\* no timestamp is ever stored.
C28_ZeroQuota ==
    config.maxRequests = 0 =>
        /\ \A c \in DOMAIN clients : clients[c].requests = <<>>
        /\ IsCheck => (~LastResult.allowed /\ LastResult.remaining = 0)

\* both clients were checked under maxRequests = 0, the last one after time
\* had passed
C28_Witness ==
    /\ config.maxRequests = 0
    /\ IsCheck
    /\ now > 0
    /\ DOMAIN clients = Clients

\* the stored state of client b, or nothing
Stored(map, b) == IF b \in DOMAIN map THEN <<map[b]>> ELSE <<>>

\* C30: check(a), reset(a) and consume(a) change neither the stored state of
\* another client b nor the result a check(b) would return.
C30_OtherClientsUntouched ==
    [][lastCall'.op \in {"check", "reset", "consume"} =>
        \E a \in Clients :
            /\ lastCall'.op \in {"check", "reset"} => a = lastCall'.clientId
            /\ \A b \in Clients \ {a} :
                    /\ Stored(clients', b) = Stored(clients, b)
                    /\ CheckResult(IF b \in DOMAIN clients' THEN clients'[b] ELSE NewState, now)
                            = CheckResult(GetOrCreate(b), now)
    ]_vars

\* a client was denied while the other one held a counted request
C30_Witness ==
    /\ IsCheck
    /\ ~LastResult.allowed
    /\ \E b \in DOMAIN clients \ {LastClient} : clients[b].requests # <<>>

\* C26: check() runs as one step of each handleMessage() call: an admission
\* has stored its timestamp when the call goes on, and a call of the same
\* client that follows the admission that took the last slot is denied.
C26_CheckAtomic ==
    [][lastCall'.op = "handleMessage" =>
        LET c == lastCall'.clientId
        IN  /\ lastCall'.result.allowed =>
                /\ clients'[c].requests # <<>>
                /\ clients'[c].requests[Len(clients'[c].requests)] = now
                /\ Len(Trim(clients'[c].requests, now)) <= config.maxRequests
            /\ (/\ IsHandle
                /\ LastClient = c
                /\ LastResult.allowed
                /\ LastResult.remaining = 0)
                    => ~lastCall'.result.allowed
    ]_vars

\* a message was denied while an earlier call of the same client was still
\* waiting for its handler
C26_Witness ==
    /\ IsHandle
    /\ ~LastResult.allowed
    /\ \E i \in 1..Len(pending) : pending[i].clientId = LastClient

\* what a handleMessage() call shows of the handler it ran: a handler that
\* returns, one that throws, one whose promise is awaited
Dispatched(effects) ==
    IF effects.invoked = <<>> THEN "none"
    ELSE IF effects.completion = "pending" THEN "async"
    ELSE IF Codes(effects.sent) = <<"HANDLER_ERROR">> THEN "throws"
    ELSE "returns"

\* C22: on(T, h) makes h the one handler of T and off(T) leaves T without
\* one, nothing else changes the registrations, and an admitted message of
\* type T runs exactly the handler registered last, or gets
\* UNKNOWN_MESSAGE_TYPE when there is none.
C22_LastRegistrationWins ==
    [][/\ lastCall'.op = "on" =>
            /\ lastCall'.type \in DOMAIN handlers'
            /\ handlers'[lastCall'.type] = lastCall'.handler
            /\ \A t \in MessageTypes \ {lastCall'.type} :
                    Stored(handlers', t) = Stored(handlers, t)
       /\ lastCall'.op = "off" =>
            /\ lastCall'.type \notin DOMAIN handlers'
            /\ \A t \in MessageTypes \ {lastCall'.type} :
                    Stored(handlers', t) = Stored(handlers, t)
       /\ lastCall'.op \notin {"on", "off"} => handlers' = handlers
       /\ (/\ lastCall'.op = "handleMessage"
           /\ lastCall'.result.allowed
           /\ Parses(lastCall'.rawMessage)
           /\ HasStringType(JSONParse(lastCall'.rawMessage)))
            => LET T == JSONParse(lastCall'.rawMessage).fields.type.str
               IN  IF T \in DOMAIN handlers
                   THEN /\ lastCall'.effects.invoked = <<T>>
                        /\ Dispatched(lastCall'.effects) = handlers[T]
                   ELSE /\ lastCall'.effects.invoked = <<>>
                        /\ Codes(lastCall'.effects.sent) = <<"UNKNOWN_MESSAGE_TYPE">>
    ]_vars

\* a throwing handler was registered for a type whose earlier handler is still
\* awaited by a suspended call
C22_Witness ==
    /\ lastCall.op = "on"
    /\ handlers[lastCall.type] = lastCall.handler
    /\ lastCall.handler = "throws"
    /\ pending # <<>>

\* the raw messages that never reach a handler
Unsuspended == {raw \in ProbeMessages : ~HasStringType(JSONParse(raw))}

C29_ExtractorKey ==
    [][lastCall'.op = "handleMessage" =>
        LET key == Extractor(options.getClientId, lastCall'.client)
        IN  /\ lastCall'.clientId = key
            /\ lastCall'.result = CheckResult(GetOrCreate(key), now)
            /\ DOMAIN clients' = DOMAIN clients \cup {key}
            /\ clients'[key] = CheckState(GetOrCreate(key), now)
            /\ \A k \in DOMAIN clients \ {key} : clients'[k] = clients[k]
            /\ \A c \in Clients :
                    Extractor(options.getClientId, c) # c => c \notin DOMAIN clients'
    ]_vars

\* two connections share a key: c2 was denied on the quota c1 had used, and
\* the key is the only entry
C29_Witness ==
    /\ IsHandle
    /\ options.getClientId = "shared"
    /\ lastCall.client = "c2"
    /\ ~LastResult.allowed
    /\ pending # <<>>
    /\ pending[1].clientId = "c1"
    /\ DOMAIN clients = {"user"}

\* C27: a limiter given an invalid policy such as windowMs <= 0 fails at
\* construction, so no check() is ever served under such a policy.
C27_NoServiceUnderInvalidPolicy ==
    IsCheck => config.windowMs > 0

\* C23: after destroy() the cleanup timer is cancelled and fires no more, the
\* limiter tracks no client and no handler is registered; destroy() called
\* again changes nothing.
C23_Shutdown ==
    [][/\ lastCall'.op = "destroy" =>
            /\ cleanupInterval' = <<>>
            /\ timers' = <<>>
            /\ clients' = <<>>
            /\ handlers' = <<>>
            /\ lastCall.op = "destroy" =>
                    UNCHANGED <<cleanupInterval, timers, clients, handlers, pending,
                                options, config, now>>
       /\ timers = <<>> => lastCall'.op # "timer"
    ]_vars

\* destroy() ran twice in a row; the first call found a running timer, tracked
\* clients and a registered handler
C23_Witness ==
    /\ lastCall.op = "destroy"
    /\ lastCall.again
    /\ lastCall.found = [timer |-> TRUE, clients |-> TRUE, handlers |-> TRUE]

\* C24: startCleanup() sets one timer of the given interval, 2 * windowMs by
\* default, which runs cleanup() each time it is due, one interval apart, until
\* stopCleanup(); after that no timer is left to fire; startCleanup() while a
\* timer runs sets no second timer and keeps the interval; at most one timer
\* is ever set.
C24_SweepTimer ==
    [][/\ Cardinality(DOMAIN timers') <= 1
       /\ IF cleanupInterval' = <<>>
          THEN timers' = <<>>
          ELSE DOMAIN timers' = {cleanupInterval'[1]}
       /\ lastCall'.op = "startCleanup" =>
            /\ ~lastCall'.given => lastCall'.interval = 2 * config.windowMs
            /\ IF cleanupInterval # <<>>
               THEN UNCHANGED <<cleanupInterval, timers>>
               ELSE timers'[cleanupInterval'[1]] =
                        [interval |-> lastCall'.interval, due |-> now + lastCall'.interval]
       /\ lastCall'.op = "stopCleanup" => (cleanupInterval' = <<>> /\ timers' = <<>>)
       /\ lastCall'.op = "timer" =>
            /\ cleanupInterval = <<lastCall'.id>>
            /\ timers[lastCall'.id].due = now
            /\ clients' = CleanupClients(clients, now)
            /\ timers'[lastCall'.id] =
                    [interval |-> timers[lastCall'.id].interval,
                     due |-> now + timers[lastCall'.id].interval]
       /\ now' # now => \A id \in DOMAIN timers : timers[id].due > now
    ]_vars

\* the timer the constructor set fired when it was due and evicted a client
C24_Witness ==
    /\ lastCall.op = "timer"
    /\ lastCall.evicted # {}
    /\ timers[lastCall.id].interval = 2 * config.windowMs
    /\ timers[lastCall.id].due = now + 2 * config.windowMs

-----------------------------------------------------------------------------
(* The per-client state machine *)

\* whether the step leaves client c with a block it did not have before
BlockAppears(c) ==
    /\ c \in DOMAIN clients'
    /\ HasBlock(clients'[c])
    /\ ~(c \in DOMAIN clients /\ HasBlock(clients[c])
            /\ clients[c].blockedUntil = clients'[c].blockedUntil)

\* C31: a client has blockedUntil only under blockDurationMs > 0, and a block
\* appears only in a check() of that client that was not made under an active
\* block and found the window full; no other operation sets one
C31_BlockTransitions ==
    [][/\ \A c \in DOMAIN clients' :
            HasBlock(clients'[c]) => config.blockDurationMs > 0
       /\ \A c \in Clients :
            BlockAppears(c) =>
                /\ lastCall'.op = "check"
                /\ lastCall'.clientId = c
                /\ ~IsBlocked(GetOrCreate(c), now)
                /\ Len(Trim(ExpireBlock(GetOrCreate(c)).requests, now))
                        >= config.maxRequests
                /\ ~lastCall'.result.allowed
                /\ lastCall'.result.blocked
                /\ clients'[c].blockedUntil = now + config.blockDurationMs]_vars

\* a check() of a tracked client has just found the window full and set the block
C31_Witness ==
    /\ IsCheck
    /\ config.maxRequests > 0
    /\ ~LastResult.allowed
    /\ LastResult.blocked
    /\ LastResult.resetMs = config.blockDurationMs
    /\ LastClient \in DOMAIN clients
    /\ HasBlock(clients[LastClient])
    /\ clients[LastClient].blockedUntil = now + config.blockDurationMs
    /\ Len(clients[LastClient].requests) = config.maxRequests

-----------------------------------------------------------------------------
(* Progress: clients that keep calling check() while time moves on *)

\* the latest moment from which a denial is followed up
MaxLiveStart == 1

\* far enough for a window and a block that start by MaxLiveStart to run out
LiveHorizon == MaxLiveStart + config.windowMs + config.blockDurationMs

LiveTick == now < LiveHorizon /\ Advance(1)

\* the client that keeps calling
LiveClient == "c1"

NextLive ==
    \/ CheckTracked(LiveClient)
    \/ Cleanup
    \/ LiveTick

\* Date.now() keeps advancing and the client keeps calling check();
\* cleanup() may run at any point, or never
SpecLive ==
    /\ Init
    /\ [][NextLive]_vars
    /\ WF_vars(LiveTick)
    /\ WF_vars(CheckTracked(LiveClient))

\* the last call was a check() of c with this verdict
Checked(c, allowed) ==
    /\ IsCheck
    /\ LastClient = c
    /\ LastResult.allowed = allowed

\* C32: under maxRequests > 0, a client whose check() is denied (window full,
\* under a block, after a sweep cleared the block, again and again) and who
\* keeps calling check() while time advances is admitted again
C32_DeniedLeadsToAdmitted ==
    (Checked(LiveClient, FALSE) /\ config.maxRequests > 0 /\ now <= MaxLiveStart)
        ~> Checked(LiveClient, TRUE)

\* a check() is admitted for a client whose check() before it was denied
C32_Witness ==
    /\ IsCheck
    /\ LastResult.allowed
    /\ lastCall.until # <<>>
    /\ config.maxRequests > 0
    /\ now > 0

-----------------------------------------------------------------------------
(* createRateLimitedHandler: a handler wrapped with a limiter of its own *)

\* RateLimitedHandlerConfig: the callback may be absent, the extractor
\* defaults to client.id
WrapOptions ==
    [onRateLimitExceeded : {"none", "observer"},
     closeOnRateLimit : BOOLEAN,
     getClientId : {"id", "custom"}]

\* the denial branch of rateLimitedHandler
WrapDenialEffects(c, result) ==
    [sent |-> <<CreateErrorResponse("RATE_LIMIT_EXCEEDED", result.resetMs)>>,
     parsed |-> FALSE,
     invoked |-> <<>>,
     callbacks |-> IF options.onRateLimitExceeded # "none"
                   THEN <<[fn |-> options.onRateLimitExceeded, client |-> c,
                           result |-> result]>>
                   ELSE <<>>,
     closed |-> IF options.closeOnRateLimit THEN <<RATE_LIMITED>> ELSE <<>>,
     completion |-> "resolved",
     steps |-> DenialSteps(c, result)]

\* await handler(client, message), with nothing around it
WrappedEffects(type, behaviour) ==
    [sent |-> <<>>,
     parsed |-> FALSE,
     invoked |-> <<type>>,
     callbacks |-> <<>>,
     closed |-> <<>>,
     completion |-> CASE behaviour = "returns" -> "resolved"
                      [] behaviour = "throws" -> "rejected"
                      [] OTHER -> "pending"]

\* rateLimitedHandler(client, message), up to its return or its suspension at
\* the wrapped handler's promise
RateLimitedHandler(c, type, behaviour) ==
    LET clientId == GetClientId(c)
        state == GetOrCreate(clientId)
        result == CheckResult(state, now)
        effects == IF ~result.allowed THEN WrapDenialEffects(c, result)
                   ELSE WrappedEffects(type, behaviour)
    IN  /\ effects.completion = "pending" => Len(pending) < MaxPending
        /\ clients' = Put(clients, clientId, CheckState(state, now))
        /\ pending' = IF effects.completion = "pending"
                      THEN Append(pending, [clientId |-> c, type |-> type])
                      ELSE pending
        /\ admitted' = [admitted EXCEPT ![c] =
                            IF result.allowed THEN Append(@, now) ELSE @]
        /\ lastCall' = [op |-> "rateLimitedHandler", client |-> c,
                        clientId |-> clientId, result |-> result,
                        effects |-> effects]
        /\ UNCHANGED <<handlers, options, config, cleanupInterval, timers,
                       now, denyUntil, log>>

\* the wrapped handler's promise settles, and rateLimitedHandler's with it
WrapSettle(i, fulfilled) ==
    /\ i \in 1..Len(pending)
    /\ pending' = SubSeq(pending, 1, i - 1) \o SubSeq(pending, i + 1, Len(pending))
    /\ lastCall' = [op |-> "wrapSettle", clientId |-> pending[i].clientId,
                    type |-> pending[i].type, sent |-> <<>>,
                    completion |-> IF fulfilled THEN "resolved" ELSE "rejected"]
    /\ UNCHANGED <<handlers, options, config, cleanupInterval, timers,
                   now, clients, admitted, denyUntil, log>>

\* new RateLimiter(config.rateLimit): no timer is started
\* the policies the wrapper of the model is created with
WrapPolicies == [maxRequests : {1, 2}, windowMs : {2}, blockDurationMs : {0, 1}]

InitWrap ==
    /\ config \in WrapPolicies
    /\ options \in WrapOptions
    /\ NoTimer
    /\ InitState

NextWrap ==
    \/ \E c \in Clients, type \in MessageTypes, behaviour \in Behaviours :
            RateLimitedHandler(c, type, behaviour)
    \/ \E i \in 1..MaxPending, fulfilled \in BOOLEAN : WrapSettle(i, fulfilled)
    \/ Tick

SpecWrap == InitWrap /\ [][NextWrap]_vars

IsWrapped == lastCall.op = "rateLimitedHandler"

\* one call's part: an admitted message invokes the wrapped handler once and
\* sends nothing, a denied one invokes nothing and sends one
\* RATE_LIMIT_EXCEEDED payload
PerMessage(call) ==
    IF call.result.allowed
    THEN Len(call.effects.invoked) = 1 /\ call.effects.sent = <<>>
    ELSE call.effects.invoked = <<>>
            /\ Codes(call.effects.sent) = <<"RATE_LIMIT_EXCEEDED">>

WrapPerMessage ==
    [][lastCall'.op = "rateLimitedHandler" => PerMessage(lastCall')]_vars

\* C33: per message as above, and the wrapped handler runs at most
\* maxRequests times per client key within any window
C33_WrappedHandler ==
    [][lastCall'.op = "rateLimitedHandler" =>
        /\ PerMessage(lastCall')
        /\ Len(admitted'[lastCall'.client]) <= config.maxRequests]_vars

-----------------------------------------------------------------------------
(* Suspended handler invocations against on(), off() and destroy() *)

\* A server with default options: messages, settling promises, registrations,
\* shutdown, time
NextInFlight ==
    \/ \E c \in Clients, raw \in ProbeMessages : HandleMessage(c, raw)
    \/ \E i \in 1..MaxPending, fulfilled \in BOOLEAN : Settle(i, fulfilled)
    \/ \E type \in MessageTypes, behaviour \in Behaviours : On(type, behaviour)
    \/ \E type \in MessageTypes : Off(type)
    \/ Destroy
    \/ GateTick

SpecInFlight == InitSuspend /\ [][NextInFlight]_vars

\* C34: the handler is looked up once, when the message is dispatched: the
\* call suspends on exactly the handler registered then; on(), off() and
\* destroy() leave every suspended invocation as it is; and a suspended
\* invocation that fails sends exactly one HANDLER_ERROR payload, one that
\* succeeds sends nothing, whatever the registrations are by then
C34_InFlightKept ==
    [][/\ lastCall'.op = "handleMessage" =>
            IF lastCall'.effects.completion = "pending"
            THEN /\ Len(lastCall'.effects.invoked) = 1
                 /\ lastCall'.effects.invoked[1] \in DOMAIN handlers
                 /\ handlers[lastCall'.effects.invoked[1]] = "async"
                 /\ pending' = Append(pending,
                                      [clientId |-> lastCall'.client,
                                       type |-> lastCall'.effects.invoked[1]])
            ELSE pending' = pending
       /\ lastCall'.op \in {"on", "off", "destroy", "none"} => pending' = pending
       /\ lastCall'.op = "settle" =>
            /\ \E i \in 1..Len(pending) :
                /\ pending[i] = [clientId |-> lastCall'.clientId,
                                 type |-> lastCall'.type]
                /\ pending' = SubSeq(pending, 1, i - 1)
                                \o SubSeq(pending, i + 1, Len(pending))
            /\ Codes(lastCall'.sent) =
                    IF lastCall'.fulfilled THEN <<>> ELSE <<"HANDLER_ERROR">>
    ]_vars

\* a suspended invocation fails after destroy() emptied the registrations and
\* the limiter under it: HANDLER_ERROR is sent all the same
C34_Witness ==
    /\ lastCall.op = "settle"
    /\ ~lastCall.fulfilled
    /\ Codes(lastCall.sent) = <<"HANDLER_ERROR">>
    /\ handlers = <<>>
    /\ clients = <<>>
    /\ cleanupInterval = <<>>

-----------------------------------------------------------------------------
(* The order of a denial's effects *)

\* the payloads, callbacks and close codes of a sequence of steps, each in order
StepsOf(steps, do) == SelectSeq(steps, LAMBDA st : st.do = do)

\* the place of a kind of step in the denial branch
Rank(do) == CASE do = "send" -> 1 [] do = "callback" -> 2 [] OTHER -> 3

\* a denied call's steps: the payload first, then the callback, then the
\* close; one step of each kind at most, nothing sent once the connection is
\* closed; and the steps are the effects the call is recorded with
DenialOrder(call) ==
    LET steps == call.effects.steps
    IN  /\ Len(steps) >= 1
        /\ steps[1].do = "send"
        /\ steps[1].payload.code = "RATE_LIMIT_EXCEEDED"
        /\ \A i, j \in 1..Len(steps) : i < j => Rank(steps[i].do) < Rank(steps[j].do)
        /\ \A i, j \in 1..Len(steps) :
                (i < j /\ steps[i].do = "close") => steps[j].do # "send"
        /\ Len(StepsOf(steps, "callback")) =
                IF options.onRateLimitExceeded # "none" THEN 1 ELSE 0
        /\ Len(StepsOf(steps, "close")) = IF options.closeOnRateLimit THEN 1 ELSE 0
        /\ call.effects.sent = <<steps[1].payload>>
        /\ Len(call.effects.callbacks) = Len(StepsOf(steps, "callback"))
        /\ Len(call.effects.closed) = Len(StepsOf(steps, "close"))

\* the same order in the handler made by createRateLimitedHandler
WrapDenialOrder ==
    [][(lastCall'.op = "rateLimitedHandler" /\ ~lastCall'.result.allowed)
            => DenialOrder(lastCall')]_vars

\* C35: a denied handleMessage() sends the rate-limit payload first, then
\* invokes the callback, then closes the connection if closeOnRateLimit is
\* set, and sends nothing after the close; an admitted one never closes
C35_DenialOrder ==
    [][lastCall'.op = "handleMessage" =>
            IF lastCall'.result.allowed
            THEN lastCall'.effects.closed = <<>>
            ELSE DenialOrder(lastCall')]_vars

\* a denied message under closeOnRateLimit: payload, callback, close
C35_Witness ==
    /\ IsHandle
    /\ ~LastResult.allowed
    /\ options.closeOnRateLimit
    /\ Len(LastEffects.steps) = 3
    /\ LastEffects.steps[1].do = "send"
    /\ LastEffects.steps[2].do = "callback"
    /\ LastEffects.steps[3].do = "close"

-----------------------------------------------------------------------------
(* cleanup() against the results of later check() calls *)

\* the state check() works on: the entry, or a new one
StateOf(map, c) == IF c \in DOMAIN map THEN map[c] ELSE NewState

\* C36: a cleanup() changes no result of a later check(): for every client and
\* every moment from now on, check() returns the same allowed, remaining,
\* resetMs and blocked on the swept map as on the map left alone
C36_SweepTransparent ==
    [][lastCall'.op = "cleanup" =>
        \A c \in Clients : \A t \in now..MaxTime :
            CheckResult(StateOf(clients', c), t)
                = CheckResult(StateOf(clients, c), t)]_vars

-----------------------------------------------------------------------------
(* What a message costs *)

\* how many of the timestamps are the present moment
CountNow(requests) == Len(SelectSeq(requests, LAMBDA ts : ts = now))

\* C37: a handleMessage() call whose check() admits adds exactly one timestamp,
\* the present moment, to the client's sequence, whatever the message turns
\* out to be (unparsable, without a type, of an unknown type, failing in its
\* handler, or handled); a denied call adds none
C37_AdmissionConsumes ==
    [][lastCall'.op = "handleMessage" =>
        LET key == lastCall'.clientId
            before == StateOf(clients, key).requests
            after == StateOf(clients', key).requests
        IN  IF lastCall'.result.allowed
            THEN /\ CountNow(after) = CountNow(before) + 1
                 /\ Len(after) <= Len(before) + 1
                 /\ after[Len(after)] = now
            ELSE /\ CountNow(after) = CountNow(before)
                 /\ Len(after) <= Len(before)]_vars

\* an admitted message that could not be parsed has taken the client's slot
C37_Witness ==
    /\ IsHandle
    /\ LastResult.allowed
    /\ Codes(LastEffects.sent) = <<"INVALID_JSON">>
    /\ LastEffects.invoked = <<>>
    /\ clients[LastClient].requests = <<now>>
    /\ LastResult.remaining = config.maxRequests - 1

-----------------------------------------------------------------------------
(* How many timestamps a client's entry holds *)

\* C38: in every state, each tracked client's sequence has at most maxRequests
\* timestamps inside the current window
C38_StoredWithinQuota ==
    \A c \in DOMAIN clients :
        Len(Trim(clients[c].requests, now)) <= config.maxRequests

-----------------------------------------------------------------------------
(* What a denial tells the client about waiting *)

\* the payload sendRateLimitError() builds from a result
RetryPayload(result) == CreateErrorResponse("RATE_LIMIT_EXCEEDED", result.resetMs)

\* C39: every denied check() reports resetMs > 0, under a block and at a full
\* window, also with maxRequests = 0, so that the payload built from the
\* result carries retryAfterMs, equal to resetMs
C39_DeniedResetPositive ==
    (IsCheck /\ ~LastResult.allowed) =>
        /\ LastResult.resetMs > 0
        /\ "retryAfterMs" \in DOMAIN RetryPayload(LastResult)
        /\ RetryPayload(LastResult).retryAfterMs = LastResult.resetMs

\* a denial under maxRequests = 0 and no block: the sequence is empty and
\* resetMs is the whole window
C39_Witness ==
    /\ IsCheck
    /\ ~LastResult.allowed
    /\ config.maxRequests = 0
    /\ config.blockDurationMs = 0
    /\ LastResult.resetMs = config.windowMs
    /\ RetryPayload(LastResult).retryAfterMs = config.windowMs

\* the same for the payloads the gate sends on its denials
GateRetryAfter ==
    (IsHandle /\ ~LastResult.allowed) =>
        /\ Len(LastEffects.sent) = 1
        /\ "retryAfterMs" \in DOMAIN LastEffects.sent[1]
        /\ LastEffects.sent[1].retryAfterMs = LastResult.resetMs
        /\ LastResult.resetMs > 0

====
